---- MODULE Spec2Model ----
(***************************************************************************)
(* A model of the runtime core of koto: the constant pool and its builder  *)
(* (parser/src/constant_pool.rs), the value model (runtime/src/value.rs)   *)
(* and the script execution driver (koto/src/lib.rs).                      *)
(***************************************************************************)
EXTENDS Integers, Sequences, FiniteSets, TLC

VARIABLES
    builder,    \* the ConstantPoolBuilder being filled
    pool,       \* the ConstantPool of the last build(), or NoPool
    log,        \* ghost: the add_* calls made on `builder`, with their results
    poolLog,    \* ghost: the add_* calls that produced `pool`
    aggs,       \* the Rc<RefCell<ValueList>> and Rc<RefCell<ValueMap>> allocations
    cells,      \* the Rc<RefCell<Value>> allocations of Share values
    handles,    \* the Values held by the bindings of the host and the script
    via,        \* ghost: the handle the last step mutated through, or "-"
    link,       \* ghost: the last copy_value/make_reference and the handles it relates
    family,     \* ghost: the make_reference call each Share handle descends from
    chunk,      \* Koto::chunk: the compiled script, or NoChunk
    self_script,\* Koto::script: the text of the script last compiled
    globals,    \* the global function "main" of the runtime, or NoMain
    outcome,    \* what the last call of the driver gave the host
    host,       \* "running", or "panicked" once a panic has unwound into the host
    fault,      \* ghost: the Error the Vm gave the last call, and how it was resolved
    env,        \* the global "env" of the runtime
    script_path,\* Koto::script_path
    last,       \* ghost: the last set_args or set_script_path call
    pure        \* ghost: the last call of a function of values, with its result

poolVars == <<builder, pool, log, poolLog>>

valueVars == <<aggs, cells, handles, via, link, family>>

driverVars == <<chunk, self_script, globals, outcome, host, fault>>

envVars == <<env, script_path, last>>

vars == <<builder, pool, log, poolLog, aggs, cells, handles, via, link, family,
          chunk, self_script, globals, outcome, host, fault, env, script_path, last,
          pure>>

\* What the operations of one part leave alone.
notPool == <<valueVars, driverVars, envVars, pure>>
notValues == <<poolVars, driverVars, envVars, pure>>
notDriver == <<poolVars, valueVars, envVars, pure>>
notEnv == <<poolVars, valueVars, driverVars, pure>>
notPure == <<poolVars, valueVars, driverVars, envVars>>

(***************************************************************************)
(* Bounds of the model.                                                    *)
(***************************************************************************)
\* The largest ConstantIndex (scaled down): indices are 0..IndexMax.
IndexMax == 1
\* The number of add_* calls made over the builders of one behaviour.
MaxAdds == 4
\* The number of list and map allocations alive at a time.
MaxAggs == 2
\* The number of Share cells alive at a time.
MaxCells == 2
\* The number of strings given to set_args.
MaxArgs == 3
\* The number of lines of a script given to format_error.
MaxLines == 10
\* The largest column of a position given to format_error.
MaxColumn == 3

(***************************************************************************)
(* Literals.  A string is the tuple of its bytes, an f64 is the tuple      *)
(* <<sign, biased exponent, top four fraction bits>> (the low 48 fraction  *)
(* bits are zero), an i64 is the one-element tuple of its value.           *)
(***************************************************************************)
StrLit(s) == [kind |-> "Str", v |-> s]
F64Lit(f) == [kind |-> "F64", v |-> f]
I64Lit(n) == [kind |-> "I64", v |-> <<n>>]

\* "", "a", "ab"
Strings == {<<>>, <<97>>, <<97, 98>>}
\* 0.0, 1.0
Floats == {<<0, 0, 0>>, <<0, 1023, 0>>}
Ints == {-1, 0, 1}

Literals ==
    {StrLit(s) : s \in Strings} \cup {F64Lit(f) : f \in Floats}
        \cup {I64Lit(n) : n \in Ints}

(***************************************************************************)
(* Conversions to the bytes that reach the hasher.                         *)
(***************************************************************************)
RECURSIVE ToBytesLE(_, _)
\* The k low bytes of the two's complement of n, least significant first.
ToBytesLE(n, k) ==
    IF k = 0 THEN <<>> ELSE <<n % 256>> \o ToBytesLE(n \div 256, k - 1)

\* f64::to_bits, as the eight bytes of the u64, least significant first.
F64ToBits(f) ==
    <<0, 0, 0, 0, 0, 0, (f[2] % 16) * 16 + f[3], f[1] * 128 + (f[2] \div 16)>>

\* <i64 as Hash>::hash: the eight bytes of the integer.
HashI64(n) == ToBytesLE(n, 8)

\* <u64 as Hash>::hash, applied to the bits of a float.
HashU64(bits) == bits

\* <str as Hash>::hash: the bytes of the string, then the byte 0xff.
HashStr(s) == s \o <<255>>

(***************************************************************************)
(* ConstantIndex::try_from(usize).                                         *)
(***************************************************************************)
IndexInRange(n) == n <= IndexMax

(***************************************************************************)
(* Results of the add_* methods.                                           *)
(***************************************************************************)
Ok(i) == [ok |-> TRUE, index |-> i]
OutOfRange == [ok |-> FALSE, index |-> -1]

(***************************************************************************)
(* ConstantPoolBuilder.                                                    *)
(***************************************************************************)
EmptyMap == [k \in {} |-> 0]

MapInsert(m, k, i) == [x \in DOMAIN m \cup {k} |-> IF x = k THEN i ELSE m[x]]

BuilderDefault ==
    [constants |-> <<>>, string_data |-> <<>>, hasher |-> <<>>,
     string_map |-> EmptyMap, float_map |-> EmptyMap, int_map |-> EmptyMap]

AddStringPushFirst(b, s) ==
    IF s \in DOMAIN b.string_map
    THEN [builder |-> b, result |-> Ok(b.string_map[s])]
    ELSE LET start == Len(b.string_data)
             end == start + Len(s)
             pushed == [b EXCEPT !.string_data = @ \o s,
                                 !.constants = Append(@, [kind |-> "Str", v |-> <<start, end>>]),
                                 !.hasher = @ \o HashStr(s)]
         IN  IF ~IndexInRange(Len(b.constants))
             THEN [builder |-> pushed, result |-> OutOfRange]
             ELSE [builder |-> [pushed EXCEPT !.string_map =
                                    MapInsert(@, s, Len(b.constants))],
                   result |-> Ok(Len(b.constants))]

AddStringRangeAfterPush(b, s) ==
    IF s \in DOMAIN b.string_map
    THEN [builder |-> b, result |-> Ok(b.string_map[s])]
    ELSE IF ~IndexInRange(Len(b.constants))
    THEN [builder |-> b, result |-> OutOfRange]
    ELSE LET start == Len(b.string_data \o s)
             end == start + Len(s)
         IN  [builder |->
                  [b EXCEPT !.string_data = @ \o s,
                            !.constants = Append(@, [kind |-> "Str", v |-> <<start, end>>]),
                            !.hasher = @ \o HashStr(s),
                            !.string_map = MapInsert(@, s, Len(b.constants))],
              result |-> Ok(Len(b.constants))]

AddString(b, s) ==
    IF s \in DOMAIN b.string_map
    THEN [builder |-> b, result |-> Ok(b.string_map[s])]
    ELSE IF ~IndexInRange(Len(b.constants))
    THEN [builder |-> b, result |-> OutOfRange]
    ELSE LET start == Len(b.string_data)
             end == start + Len(s)
         IN  [builder |->
                  [b EXCEPT !.string_data = @ \o s,
                            !.constants = Append(@, [kind |-> "Str", v |-> <<start, end>>]),
                            !.hasher = @ \o HashStr(s),
                            !.string_map = MapInsert(@, s, Len(b.constants))],
              result |-> Ok(Len(b.constants))]

AddF64(b, n) ==
    LET n_u64 == F64ToBits(n)
    IN  IF n_u64 \in DOMAIN b.float_map
        THEN [builder |-> b, result |-> Ok(b.float_map[n_u64])]
        ELSE IF ~IndexInRange(Len(b.constants))
        THEN [builder |-> b, result |-> OutOfRange]
        ELSE [builder |->
                  [b EXCEPT !.constants = Append(@, [kind |-> "F64", v |-> n]),
                            !.hasher = @ \o HashU64(n_u64),
                            !.float_map = MapInsert(@, n_u64, Len(b.constants))],
              result |-> Ok(Len(b.constants))]

AddI64NoDedup(b, n) ==
    IF ~IndexInRange(Len(b.constants))
    THEN [builder |-> b, result |-> OutOfRange]
    ELSE [builder |->
              [b EXCEPT !.constants = Append(@, [kind |-> "I64", v |-> <<n>>]),
                        !.hasher = @ \o HashI64(n),
                        !.int_map = MapInsert(@, n, Len(b.constants))],
          result |-> Ok(Len(b.constants))]

AddI64(b, n) ==
    IF n \in DOMAIN b.int_map
    THEN [builder |-> b, result |-> Ok(b.int_map[n])]
    ELSE IF ~IndexInRange(Len(b.constants))
    THEN [builder |-> b, result |-> OutOfRange]
    ELSE [builder |->
              [b EXCEPT !.constants = Append(@, [kind |-> "I64", v |-> <<n>>]),
                        !.hasher = @ \o HashI64(n),
                        !.int_map = MapInsert(@, n, Len(b.constants))],
          result |-> Ok(Len(b.constants))]

\* DefaultHasher::finish, taken to be injective on the bytes written: no two
\* different byte streams collide.
Finish(hasher) == hasher

\* ConstantPoolBuilder::build
Build(b) ==
    [constants |-> b.constants, string_data |-> b.string_data,
     hash |-> Finish(b.hasher)]

(***************************************************************************)
(* ConstantPool.                                                           *)
(***************************************************************************)
NoPool == [constants |-> <<>>, string_data |-> <<>>, hash |-> <<-1>>]

None == [kind |-> "None", v |-> <<>>]
Invalid == [kind |-> "Invalid index", v |-> <<>>]

Size(p) == Len(p.constants)

\* &string_data[range]; <<-1>> stands for a range outside the data.
Slice(data, range) ==
    IF range[1] <= range[2] /\ range[2] <= Len(data)
    THEN SubSeq(data, range[1] + 1, range[2])
    ELSE <<-1>>

PoolGet(p, index) ==
    IF index >= 0 /\ index < Len(p.constants)
    THEN LET e == p.constants[index + 1]
         IN  IF e.kind = "Str"
             THEN [kind |-> "Str", v |-> Slice(p.string_data, e.v)]
             ELSE e
    ELSE None

GetStrBounds(p, index) ==
    IF index < Len(p.constants) /\ p.constants[index + 1].kind = "Str"
    THEN p.constants[index + 1].v
    ELSE <<-1, -1>>

\* The typed accessors; Invalid stands for panic!("Invalid index").
GetStr(p, index) ==
    IF GetStrBounds(p, index) = <<-1, -1>>
    THEN Invalid
    ELSE [kind |-> "Str", v |-> Slice(p.string_data, GetStrBounds(p, index))]

GetF64(p, index) ==
    IF index < Len(p.constants) /\ p.constants[index + 1].kind = "F64"
    THEN p.constants[index + 1]
    ELSE Invalid

GetI64(p, index) ==
    IF index < Len(p.constants) /\ p.constants[index + 1].kind = "I64"
    THEN p.constants[index + 1]
    ELSE Invalid

\* impl PartialEq for ConstantPool
PoolEq(p, q) == p.hash = q.hash

(***************************************************************************)
(* The operations on the builder.                                          *)
(***************************************************************************)
AddsLeft == Len(log) + Len(poolLog) < MaxAdds

Record(lit, r) ==
    /\ builder' = r.builder
    /\ log' = Append(log, [lit |-> lit, result |-> r.result])
    /\ UNCHANGED <<pool, poolLog>>
    /\ UNCHANGED notPool

add_string ==
    /\ AddsLeft
    /\ \E s \in Strings : Record(StrLit(s), AddString(builder, s))

add_f64 ==
    /\ AddsLeft
    /\ \E f \in Floats : Record(F64Lit(f), AddF64(builder, f))

add_i64 ==
    /\ AddsLeft
    /\ \E n \in Ints : Record(I64Lit(n), AddI64(builder, n))

\* build() consumes the builder; the parser starts the next one from default.
build ==
    /\ pool' = Build(builder)
    /\ poolLog' = log
    /\ builder' = BuilderDefault
    /\ log' = <<>>
    /\ UNCHANGED notPool

InitPool ==
    /\ builder = BuilderDefault
    /\ pool = NoPool
    /\ log = <<>>
    /\ poolLog = <<>>

NextPool == add_string \/ add_f64 \/ add_i64 \/ build

(***************************************************************************)
(* Values.  A Value is a record of its variant tag and a tuple: nothing    *)
(* for Empty, the flag of a Bool, the f64 of a Number, the bytes of a Str, *)
(* the bounds of a Range, the allocation of a List or Map, the cell of a   *)
(* Share.                                                                  *)
(***************************************************************************)
Empty == [tag |-> "Empty", v |-> <<>>]
Bool(b) == [tag |-> "Bool", v |-> <<IF b THEN 1 ELSE 0>>]
Number(f) == [tag |-> "Number", v |-> f]
Str(s) == [tag |-> "Str", v |-> s]
Range(start, end) == [tag |-> "Range", v |-> <<start, end>>]
List(r) == [tag |-> "List", v |-> <<r>>]
Map(r) == [tag |-> "Map", v |-> <<r>>]
Share(c) == [tag |-> "Share", v |-> <<c>>]

One == <<0, 1023, 0>>
NaN == <<0, 2047, 8>>

IsNaN(f) == f[2] = 2047 /\ f[3] # 0
IsZero(f) == f[2] = 0 /\ f[3] = 0

\* f64 ==: a NaN equals nothing, the two zeros are equal.
F64Eq(a, b) ==
    /\ ~IsNaN(a)
    /\ ~IsNaN(b)
    /\ (a = b \/ (IsZero(a) /\ IsZero(b)))

IsAgg(x) == x.tag \in {"List", "Map"}
IsShare(x) == x.tag = "Share"
Ref(x) == x.v[1]

\* The values a binding or an element is given directly.
Atoms == {Number(One), Number(NaN)}

Handles == {"a", "b"}

\* #[derive(Clone)] for Value: an Rc is cloned as a handle of the same allocation.
CloneValue(x) == x

(***************************************************************************)
(* The heap: hp.aggs[r] is the data of allocation r, hp.cells[c] the Value *)
(* in cell c.                                                              *)
(***************************************************************************)
Heap == [aggs |-> aggs, cells |-> cells, full |-> FALSE]

\* A free allocation holds no data (an aggregate of the model has an element),
\* a free cell holds Free.
FreeAgg == <<>>
Free == [tag |-> "Free", v |-> <<>>]

\* Rc::new(RefCell::new(data)): the allocator hands out the lowest free
\* allocation; hp.full is set when there is none.
PutAgg(hp, data) ==
    LET free == {r \in 1..Len(hp.aggs) : hp.aggs[r] = FreeAgg}
    IN  IF free = {} \/ hp.full
        THEN [heap |-> [hp EXCEPT !.full = TRUE], ref |-> 0]
        ELSE LET r == CHOOSE x \in free : \A y \in free : x <= y
             IN  [heap |-> [hp EXCEPT !.aggs[r] = data], ref |-> r]

PutCell(hp, value) ==
    LET free == {c \in 1..Len(hp.cells) : hp.cells[c] = Free}
    IN  IF free = {} \/ hp.full
        THEN [heap |-> [hp EXCEPT !.full = TRUE], ref |-> 0]
        ELSE LET c == CHOOSE x \in free : \A y \in free : x <= y
             IN  [heap |-> [hp EXCEPT !.cells[c] = value], ref |-> c]

\* Rc::strong_count of allocation r: the handles, elements and cells that hold it.
StrongCount(hp, hs, r) ==
    Cardinality({h \in Handles : IsAgg(hs[h]) /\ Ref(hs[h]) = r})
    + Cardinality({x \in UNION {{<<a, i>> : i \in 1..Len(hp.aggs[a])} : a \in 1..Len(hp.aggs)} :
          /\ IsAgg(hp.aggs[x[1]][x[2]])
          /\ Ref(hp.aggs[x[1]][x[2]]) = r})
    + Cardinality({c \in 1..Len(hp.cells) :
          IsAgg(hp.cells[c]) /\ Ref(hp.cells[c]) = r})

\* ValueList::clone and ValueMap::clone of allocation r, into a new allocation:
\* the data is copied, element by element.
CloneData(hp, r) ==
    PutAgg(hp, [i \in 1..Len(hp.aggs[r]) |-> CloneValue(hp.aggs[r][i])])

\* List(Rc::new(RefCell::new(l.borrow().clone())))
FreshCopy(hp, value) ==
    LET c == CloneData(hp, Ref(value))
    IN  [heap |-> c.heap, value |-> [tag |-> value.tag, v |-> <<c.ref>>]]

CopyValueAsClone(hp, value) ==
    [heap |-> hp, value |-> CloneValue(value)]

CopyValue(hp, value) ==
    IF IsAgg(value) THEN FreshCopy(hp, value)
    ELSE IF IsShare(value)
    THEN [heap |-> hp, value |-> CloneValue(hp.cells[Ref(value)])]
    ELSE [heap |-> hp, value |-> CloneValue(value)]

\* deref_value
DerefValue(hp, value) ==
    IF IsShare(value) THEN CloneValue(hp.cells[Ref(value)]) ELSE CloneValue(value)

\* Rc::make_mut on the Rc of a List or Map held count times.
MakeMut(hp, value, count) ==
    IF count > 1 THEN FreshCopy(hp, value) ELSE [heap |-> hp, value |-> value]

\* Value::Share(Rc::new(RefCell::new(value.clone())))
NewCell(hp, value) ==
    LET made == PutCell(hp, CloneValue(value))
    IN  [heap |-> made.heap, value |-> Share(made.ref)]

MakeReferenceNoMakeMut(hp, value, count) ==
    IF IsShare(value)
    THEN [heap |-> hp, value |-> value, flag |-> FALSE]
    ELSE LET made == NewCell(hp, value)
         IN  [heap |-> made.heap, value |-> made.value, flag |-> TRUE]

MakeReferenceRewrap(hp, value, count) ==
    LET inner == IF IsShare(value) THEN hp.cells[Ref(value)] ELSE value
        owned == IF IsAgg(inner) THEN MakeMut(hp, inner, count)
                 ELSE [heap |-> hp, value |-> inner]
        made == NewCell(owned.heap, owned.value)
    IN  [heap |-> made.heap, value |-> made.value, flag |-> ~IsShare(value)]

MakeReferenceNest(hp, value, count) ==
    LET owned == IF IsAgg(value) THEN MakeMut(hp, value, count)
                 ELSE [heap |-> hp, value |-> value]
        made == NewCell(owned.heap, owned.value)
    IN  [heap |-> made.heap, value |-> made.value, flag |-> TRUE]

MakeReference(hp, value, count) ==
    IF IsShare(value)
    THEN [heap |-> hp, value |-> value, flag |-> FALSE]
    ELSE LET owned == IF IsAgg(value) THEN MakeMut(hp, value, count)
                      ELSE [heap |-> hp, value |-> value]
             made == NewCell(owned.heap, owned.value)
         IN  [heap |-> made.heap, value |-> made.value, flag |-> TRUE]

RECURSIVE ValueEq(_, _, _)
\* == of two ValueLists or ValueMaps: structural.
DataEq(hp, x, y) ==
    /\ Len(x) = Len(y)
    /\ \A i \in 1..Len(x) : ValueEq(hp, x[i], y[i])

\* impl PartialEq for Value
ValueEq(hp, a, b) ==
    IF a.tag = "Number" /\ b.tag = "Number" THEN F64Eq(a.v, b.v)
    ELSE IF a.tag = "Bool" /\ b.tag = "Bool" THEN a.v = b.v
    ELSE IF a.tag = "Str" /\ b.tag = "Str" THEN a.v = b.v
    ELSE IF a.tag = "List" /\ b.tag = "List"
    THEN DataEq(hp, hp.aggs[Ref(a)], hp.aggs[Ref(b)])
    ELSE IF a.tag = "Map" /\ b.tag = "Map"
    THEN DataEq(hp, hp.aggs[Ref(a)], hp.aggs[Ref(b)])
    ELSE IF a.tag = "Share" /\ b.tag = "Share"
    THEN ValueEq(hp, hp.cells[Ref(a)], hp.cells[Ref(b)])
    ELSE IF a.tag = "Share" THEN ValueEq(hp, hp.cells[Ref(a)], b)
    ELSE IF b.tag = "Share" THEN ValueEq(hp, a, hp.cells[Ref(b)])
    ELSE IF a.tag = "Empty" /\ b.tag = "Empty" THEN TRUE
    ELSE FALSE

RECURSIVE Deep(_, _)
\* What is observed through a value: its atoms, and the contents of the
\* aggregates and cells it leads to.
Deep(hp, x) ==
    IF IsAgg(x)
    THEN <<x.tag, [i \in 1..Len(hp.aggs[Ref(x)]) |-> Deep(hp, hp.aggs[Ref(x)][i])]>>
    ELSE IF IsShare(x) THEN <<x.tag, <<Deep(hp, hp.cells[Ref(x)])>>>>
    ELSE <<x.tag, x.v>>

RECURSIVE Closure(_, _, _)
\* The allocations and cells held directly by the contents of location loc.
Inside(hp, loc) ==
    LET held == IF loc[1] = "agg"
                THEN {hp.aggs[loc[2]][i] : i \in 1..Len(hp.aggs[loc[2]])}
                ELSE {hp.cells[loc[2]]}
    IN  {<<"agg", Ref(x)>> : x \in {y \in held : IsAgg(y)}}
            \cup {<<"cell", Ref(x)>> : x \in {y \in held : IsShare(y)}}

\* The allocations and cells reached from the locations S in at most n steps.
Closure(hp, S, n) ==
    IF n = 0 THEN S
    ELSE Closure(hp, S \cup UNION {Inside(hp, loc) : loc \in S}, n - 1)

Loc(x) ==
    IF IsAgg(x) THEN {<<"agg", Ref(x)>>}
    ELSE IF IsShare(x) THEN {<<"cell", Ref(x)>>}
    ELSE {}

\* The allocations and cells with a strong count above zero.
Live(hp, hs) ==
    Closure(hp, UNION {Loc(hs[h]) : h \in Handles}, Len(hp.aggs) + Len(hp.cells))

\* Drop of the last Rc of an allocation: its contents are dropped with it.
Dropped(hp, hs) ==
    LET live == Live(hp, hs)
    IN  [aggs |-> [r \in 1..Len(hp.aggs) |->
                      IF <<"agg", r>> \in live THEN hp.aggs[r] ELSE FreeAgg],
         cells |-> [c \in 1..Len(hp.cells) |->
                       IF <<"cell", c>> \in live THEN hp.cells[c] ELSE Free]]

(***************************************************************************)
(* The operations on values.                                               *)
(***************************************************************************)
\* The heap and the bindings after a step, with what the step dropped.
Store(hp, hs) ==
    LET kept == Dropped(hp, hs)
    IN  /\ aggs' = kept.aggs
        /\ cells' = kept.cells
        /\ handles' = hs

NoLink == [kind |-> "none", origs |-> {}, new |-> "-"]

\* The link once the handles of S are bound to other values.
Unlink(S) ==
    IF link.new \in S \/ link.origs \subseteq S
    THEN NoLink
    ELSE [link EXCEPT !.origs = @ \ S]

\* The allocation a mutation through x acts on: that of a List or Map, or of
\* the List or Map in the cell of a Share; 0 when there is none.
Target(hp, x) ==
    IF IsAgg(x) THEN Ref(x)
    ELSE IF IsShare(x) /\ IsAgg(hp.cells[Ref(x)]) THEN Ref(hp.cells[Ref(x)])
    ELSE 0

\* A binding is given an atom.
assign ==
    \E h \in Handles, x \in Atoms :
        /\ handles[h] # x
        /\ Store(Heap, [handles EXCEPT ![h] = x])
        /\ via' = "-"
        /\ family' = [family EXCEPT ![h] = 0]
        /\ link' = Unlink({h})
        /\ UNCHANGED notValues

\* A binding is given the clone of another binding's value.
clone ==
    \E h \in Handles, g \in Handles :
        /\ h # g
        /\ handles[g] # handles[h]
        /\ Store(Heap, [handles EXCEPT ![g] = CloneValue(handles[h])])
        /\ via' = "-"
        /\ family' = [family EXCEPT ![g] = family[h]]
        /\ link' = Unlink({g})
        /\ UNCHANGED notValues

\* A binding is given a new list or map of one element.
new_aggregate ==
    \E h \in Handles, tag \in {"List", "Map"},
       x \in Atoms :
        /\ LET made == PutAgg(Heap, <<x>>)
           IN  /\ ~made.heap.full
               /\ Store(made.heap,
                        [handles EXCEPT ![h] = [tag |-> tag, v |-> <<made.ref>>]])
        /\ via' = "-"
        /\ family' = [family EXCEPT ![h] = 0]
        /\ link' = Unlink({h})
        /\ UNCHANGED notValues

Mutated(h) ==
    /\ via' = h
    /\ UNCHANGED <<cells, handles, family, link>>
    /\ UNCHANGED notValues

\* RefCell::borrow_mut of the aggregate, in place: an element is replaced.
set_element ==
    \E h \in Handles, x \in Atoms :
        LET r == Target(Heap, handles[h])
        IN  /\ r # 0
            /\ \E i \in 1..Len(aggs[r]) :
                   /\ aggs[r][i] # x
                   /\ aggs' = [aggs EXCEPT ![r][i] = x]
            /\ Mutated(h)

\* Copy on write: Rc::make_mut of the aggregate of a binding, or of the
\* aggregate in the cell of a binding, and then an element is replaced.
cow_set_element ==
    \E h \in Handles, x \in Atoms :
        LET r == Target(Heap, handles[h])
            held == IF IsShare(handles[h]) THEN cells[Ref(handles[h])] ELSE handles[h]
            owned == MakeMut(Heap, held, StrongCount(Heap, handles, r))
            o == Ref(owned.value)
        IN  /\ r # 0
            /\ ~owned.heap.full
            /\ \E i \in 1..Len(aggs[r]) :
                   /\ aggs[r][i] # x
                   /\ Store([owned.heap EXCEPT
                                !.aggs[o][i] = x,
                                !.cells = IF IsShare(handles[h])
                                          THEN [@ EXCEPT ![Ref(handles[h])] = owned.value]
                                          ELSE @],
                            IF IsShare(handles[h])
                            THEN handles
                            ELSE [handles EXCEPT ![h] = owned.value])
            /\ via' = h
            /\ UNCHANGED <<family, link>>
            /\ UNCHANGED notValues

\* The cell of a Share is given an atom.
share_write ==
    \E h \in Handles, x \in Atoms :
        /\ IsShare(handles[h])
        /\ cells[Ref(handles[h])] # x
        /\ cells' = [cells EXCEPT ![Ref(handles[h])] = x]
        /\ via' = h
        /\ UNCHANGED <<aggs, handles, family, link>>
        /\ UNCHANGED notValues

copy_value ==
    \E h \in Handles, g \in Handles :
        LET res == CopyValue(Heap, handles[h])
        IN  /\ ~res.heap.full
            /\ Store(res.heap, [handles EXCEPT ![g] = res.value])
            /\ via' = "-"
            /\ family' = [family EXCEPT ![g] = 0]
            /\ link' = IF IsAgg(handles[h]) /\ h # g
                       THEN [kind |-> "copy", origs |-> {h}, new |-> g]
                       ELSE IF IsShare(handles[h]) /\ h # g
                       THEN [kind |-> "copy of share", origs |-> {h}, new |-> g]
                       ELSE Unlink({g})
            /\ UNCHANGED notValues

\* The strong count of the Rc in the argument of a call: the argument is the
\* value of a binding moved into the call, or a clone of it.
Held(arg, moved) ==
    IF IsAgg(arg)
    THEN StrongCount(Heap, handles, Ref(arg)) + (IF moved THEN 0 ELSE 1)
    ELSE 0

\* make_reference(value): value is the clone of binding h, or binding h itself,
\* moved into the call; the result is bound to g.
make_reference ==
    \E h \in Handles, g \in Handles, moved \in BOOLEAN :
        LET arg == handles[h]
            res == MakeReference(Heap, arg, Held(arg, moved))
            gone == IF moved THEN {h, g} ELSE {g}
            origs == {k \in Handles \ gone : IsAgg(arg) /\ handles[k] = arg}
        IN  /\ ~res.heap.full
            /\ Store(res.heap, [k \in Handles |->
                                    IF k = g THEN res.value
                                    ELSE IF k \in gone THEN Empty
                                    ELSE handles[k]])
            /\ via' = "-"
            /\ family' = [k \in Handles |->
                              IF k = g
                              THEN (IF IsShare(arg) THEN family[h] ELSE Ref(res.value))
                              ELSE IF k \in gone THEN 0
                              ELSE family[k]]
            /\ link' = IF origs # {}
                       THEN [kind |-> "ref", origs |-> origs, new |-> g]
                       ELSE Unlink(gone)
            /\ UNCHANGED notValues

InitValues ==
    /\ aggs = [r \in 1..MaxAggs |-> FreeAgg]
    /\ cells = [c \in 1..MaxCells |-> Free]
    /\ handles = [h \in Handles |-> Empty]
    /\ via = "-"
    /\ link = NoLink
    /\ family = [h \in Handles |-> 0]

NextValues ==
    \/ assign
    \/ clone
    \/ new_aggregate
    \/ set_element
    \/ cow_set_element
    \/ share_write
    \/ copy_value
    \/ make_reference

(***************************************************************************)
(* Ordering of values.  The result of a comparison is "Less", "Equal",     *)
(* "Greater", "None" (partial_cmp of a NaN) or "Panic".                    *)
(***************************************************************************)
\* a < b for two f64 that are no NaN and not equal.
F64Less(a, b) ==
    IF a[1] # b[1] THEN a[1] = 1
    ELSE LET below == a[2] < b[2] \/ (a[2] = b[2] /\ a[3] < b[3])
         IN  IF a[1] = 0 THEN below ELSE ~below

\* f64::partial_cmp
F64PartialCmp(a, b) ==
    IF IsNaN(a) \/ IsNaN(b) THEN "None"
    ELSE IF F64Eq(a, b) THEN "Equal"
    ELSE IF F64Less(a, b) THEN "Less"
    ELSE "Greater"

RECURSIVE StrCmp(_, _)
\* str::cmp: the order of the bytes.
StrCmp(s, u) ==
    IF s = <<>> /\ u = <<>> THEN "Equal"
    ELSE IF s = <<>> THEN "Less"
    ELSE IF u = <<>> THEN "Greater"
    ELSE IF s[1] < u[1] THEN "Less"
    ELSE IF s[1] > u[1] THEN "Greater"
    ELSE StrCmp(Tail(s), Tail(u))

Vec4(v) == [tag |-> "Vec4", v |-> v]

RECURSIVE Vec4PartialCmp(_, _, _)
\* partial_cmp of two Vec4, from component i on: the order of the first
\* components that differ.
Vec4PartialCmp(a, b, i) ==
    IF i > Len(a) THEN "Equal"
    ELSE IF F64PartialCmp(a[i], b[i]) # "Equal" THEN F64PartialCmp(a[i], b[i])
    ELSE Vec4PartialCmp(a, b, i + 1)

PartialCmpShareNone(a, b) ==
    IF a.tag = "Number" /\ b.tag = "Number" THEN F64PartialCmp(a.v, b.v)
    ELSE IF a.tag = "Vec4" /\ b.tag = "Vec4" THEN Vec4PartialCmp(a.v, b.v, 1)
    ELSE IF a.tag = "Str" /\ b.tag = "Str" THEN StrCmp(a.v, b.v)
    ELSE IF a.tag = "Share" \/ b.tag = "Share" THEN "None"
    ELSE "Panic"

\* impl PartialOrd for Value
PartialCmp(a, b) ==
    IF a.tag = "Number" /\ b.tag = "Number" THEN F64PartialCmp(a.v, b.v)
    ELSE IF a.tag = "Vec4" /\ b.tag = "Vec4" THEN Vec4PartialCmp(a.v, b.v, 1)
    ELSE IF a.tag = "Str" /\ b.tag = "Str" THEN StrCmp(a.v, b.v)
    ELSE "Panic"

CmpNaNLeast(a, b) ==
    IF a.tag = "Number" /\ b.tag = "Number"
    THEN IF IsNaN(a.v) /\ IsNaN(b.v) THEN "Equal"
         ELSE IF ~IsNaN(a.v) /\ IsNaN(b.v) THEN "Greater"
         ELSE IF IsNaN(a.v) /\ ~IsNaN(b.v) THEN "Less"
         ELSE F64PartialCmp(a.v, b.v)
    ELSE IF a.tag = "Str" /\ b.tag = "Str" THEN StrCmp(a.v, b.v)
    ELSE "Panic"

\* impl Ord for Value
Cmp(a, b) ==
    IF a.tag = "Number" /\ b.tag = "Number"
    THEN IF IsNaN(a.v) /\ IsNaN(b.v) THEN "Equal"
         ELSE IF ~IsNaN(a.v) /\ IsNaN(b.v) THEN "Less"
         ELSE IF IsNaN(a.v) /\ ~IsNaN(b.v) THEN "Greater"
         ELSE F64PartialCmp(a.v, b.v)
    ELSE IF a.tag = "Str" /\ b.tag = "Str" THEN StrCmp(a.v, b.v)
    ELSE "Panic"

(***************************************************************************)
(* The driver.  A script is an expression run at the top level, or the     *)
(* body of a global function main: a comparison of two values with < or by *)
(* a sort, a value, or a fault of the runtime or of an external function.  *)
(***************************************************************************)
Operands == {Empty, Number(One), Number(NaN), Str(<<97>>)}

Exprs ==
    [op : {"less", "sort"}, lhs : Operands, rhs : Operands]
        \cup [op : {"value", "vm fault", "external fault"}, lhs : {Empty}, rhs : {Empty}]

NoMain == [op |-> "-", lhs |-> Empty, rhs |-> Empty]

Scripts ==
    [top : Exprs, main : {NoMain}]
        \cup [top : {[op |-> "value", lhs |-> Empty, rhs |-> Empty]}, main : Exprs]

NoChunk == [top |-> NoMain, main |-> NoMain]

\* Global values that are no Value::Function: a Number, and a function of the
\* host added with add_fn.
NumberGlobal == [op |-> "number", lhs |-> Empty, rhs |-> Empty]
BuiltinGlobal == [op |-> "builtin function", lhs |-> Empty, rhs |-> Empty]

\* Koto::get_global_function of the global value g: Some for a
\* Value::Function, or else None.
GetGlobalFunction(g) ==
    IF g \in Exprs THEN g ELSE NoMain

\* Vm::run and Vm::run_function of an expression: Ok(value), an Error, or
\* the panic of the comparison.
VmRun(e) ==
    LET ord == IF e.op = "less" THEN PartialCmp(e.lhs, e.rhs)
               ELSE IF e.op = "sort" THEN Cmp(e.lhs, e.rhs)
               ELSE "-"
    IN  IF e.op = "vm fault" THEN [kind |-> "VmError", value |-> Empty]
        ELSE IF e.op = "external fault" THEN [kind |-> "ExternalError", value |-> Empty]
        ELSE IF e.op = "value" THEN [kind |-> "Ok", value |-> e.lhs]
        ELSE IF ord = "Panic" THEN [kind |-> "Panic", value |-> Empty]
        ELSE [kind |-> "Ok", value |-> Bool(ord = "Less")]

\* The two operands of e have no order.
Unsupported(e) ==
    /\ e.op \in {"less", "sort"}
    /\ ~(e.lhs.tag = "Number" /\ e.rhs.tag = "Number")
    /\ ~(e.lhs.tag = "Str" /\ e.rhs.tag = "Str")

\* format_vm_error: the excerpt of the source when the debug info has the
\* span of the instruction, the number of the instruction when it has not.
FormatVmError(span) ==
    IF span THEN "excerpt" ELSE "Runtime error at instruction"

NoOutcome == [call |-> "-", kind |-> "-", value |-> Empty, text |-> "-", expr |-> NoMain]

\* What a call gives the host: Ok(value), Err(text), or nothing when a
\* panic unwinds through it.
Returned(call, e, res, span) ==
    [call |-> call,
     kind |-> IF res.kind = "Ok" THEN "Ok"
              ELSE IF res.kind = "Panic" THEN "Panic"
              ELSE "Err",
     value |-> res.value,
     text |-> IF res.kind = "VmError" THEN FormatVmError(span)
              ELSE IF res.kind = "ExternalError" THEN "Error:"
              ELSE "-",
     expr |-> e]

\* No Error of the Vm.
NoFault == [error |-> "-", span |-> FALSE, debug |-> NoChunk, text |-> NoChunk]

\* The Error of res as the driver took it: for a VmError whose instruction has
\* a span, the chunk whose debug info gave the span (that of the code that
\* faulted) and the text the span was rendered against.
Fault(res, span, debug, text) ==
    IF res.kind = "VmError"
    THEN [error |-> "VmError", span |-> span,
          debug |-> IF span THEN debug ELSE NoChunk,
          text |-> IF span THEN text ELSE NoChunk]
    ELSE IF res.kind = "ExternalError"
    THEN [error |-> "ExternalError", span |-> FALSE, debug |-> NoChunk, text |-> NoChunk]
    ELSE NoFault

\* The text that defines the global function f: the script whose main is f.
Origin(f) == [top |-> [op |-> "value", lhs |-> Empty, rhs |-> Empty], main |-> f]

Gave(call, kind, text) ==
    [call |-> call, kind |-> kind, value |-> Empty, text |-> text, expr |-> NoMain]

CallFunctionFallback(call, function, span) ==
    Returned(call, function, VmRun(function), FALSE)

\* Koto::call_function
CallFunction(call, function, span) ==
    Returned(call, function, VmRun(function), span)

Host(o) == IF o.kind = "Panic" THEN "panicked" ELSE "running"

compile_script_stores_first(s) ==
    \E parsed \in BOOLEAN, compiled \in BOOLEAN :
        /\ host = "running"
        /\ self_script' = s
        /\ IF ~parsed
           THEN /\ outcome' = Gave("compile", "Err", "excerpt")
                /\ UNCHANGED chunk
           ELSE IF ~compiled
           THEN /\ outcome' = Gave("compile", "Err", "Error while compiling script:")
                /\ chunk' = NoChunk
           ELSE /\ outcome' = Gave("compile", "Ok", "-")
                /\ chunk' = s
        /\ fault' = NoFault
        /\ UNCHANGED <<globals, host>>
        /\ UNCHANGED notDriver

\* Koto::compile of the text s, which is also what stands for the chunk
\* compiled from it.
compile_script(s) ==
    \E parsed \in BOOLEAN, compiled \in BOOLEAN :
        /\ host = "running"
        /\ IF ~parsed
           THEN /\ outcome' = Gave("compile", "Err", "excerpt")
                /\ UNCHANGED <<chunk, self_script>>
           ELSE IF ~compiled
           THEN /\ outcome' = Gave("compile", "Err", "Error while compiling script:")
                /\ chunk' = NoChunk
                /\ UNCHANGED self_script
           ELSE /\ outcome' = Gave("compile", "Ok", "-")
                /\ chunk' = s
                /\ self_script' = s
        /\ fault' = NoFault
        /\ UNCHANGED <<globals, host>>
        /\ UNCHANGED notDriver

\* Koto::compile
compile == \E s \in Scripts : compile_script(s)

\* The global function main once the top level of chunk c has run: the one
\* the script defines, or else the one the runtime had.
GlobalsAfter(c, g) ==
    IF c.main # NoMain THEN c.main ELSE g

RunReturnsTop(c, g, span) ==
    IF c = NoChunk
    THEN [outcome |-> Gave("run", "Ok", "-"), globals |-> g]
    ELSE LET top == VmRun(c.top)
         IN  IF top.kind # "Ok"
             THEN [outcome |-> Returned("run", c.top, top, span), globals |-> g]
             ELSE [outcome |-> Returned("run", c.top, top, span),
                   globals |-> GlobalsAfter(c, g)]

\* Koto::run with chunk c and the global function g: what the host is
\* given, and the global function afterwards.
Run(c, g, span) ==
    IF c = NoChunk
    THEN [outcome |-> Gave("run", "Ok", "-"), globals |-> g]
    ELSE LET top == VmRun(c.top)
             main == GetGlobalFunction(GlobalsAfter(c, g))
         IN  IF top.kind # "Ok"
             THEN [outcome |-> Returned("run", c.top, top, span), globals |-> g]
             ELSE [outcome |-> IF main # NoMain
                               THEN CallFunction("run", main, span)
                               ELSE Returned("run", c.top, top, span),
                   globals |-> GlobalsAfter(c, g)]

\* The Error of the Vm under Koto::run: that of the top level, or else that
\* of main.
RunFault(c, g, span, text) ==
    IF c = NoChunk
    THEN NoFault
    ELSE LET top == VmRun(c.top)
             main == GetGlobalFunction(GlobalsAfter(c, g))
         IN  IF top.kind # "Ok" THEN Fault(top, span, c, text)
             ELSE IF main # NoMain THEN Fault(VmRun(main), span, Origin(main), text)
             ELSE NoFault

\* Koto::run
run ==
    \E span \in BOOLEAN :
        /\ host = "running"
        /\ outcome' = Run(chunk, globals, span).outcome
        /\ globals' = Run(chunk, globals, span).globals
        /\ fault' = RunFault(chunk, globals, span, self_script)
        /\ host' = Host(outcome')
        /\ UNCHANGED <<chunk, self_script>>
        /\ UNCHANGED notDriver

\* The text of the error for a name that gives no function.
NotFound(name) ==
    IF name = "main"
    THEN "Runtime error: function 'main' not found"
    ELSE "Runtime error: function 'other' not found"

\* Koto::call_function_by_name, g being the global value named main: no
\* other name has a value.
CallFunctionByName(g, name, span) ==
    IF name = "main" /\ GetGlobalFunction(g) # NoMain
    THEN CallFunction("call_function_by_name", GetGlobalFunction(g), span)
    ELSE Gave("call_function_by_name", "Err", NotFound(name))

\* Koto::call_function_by_name
call_function_by_name ==
    \E name \in {"main", "other"}, span \in BOOLEAN :
        /\ host = "running"
        /\ outcome' = CallFunctionByName(globals, name, span)
        /\ fault' = IF name = "main" /\ GetGlobalFunction(globals) # NoMain
                     THEN Fault(VmRun(GetGlobalFunction(globals)), span,
                                Origin(GetGlobalFunction(globals)), self_script)
                     ELSE NoFault
        /\ host' = Host(outcome')
        /\ UNCHANGED <<chunk, self_script, globals>>
        /\ UNCHANGED notDriver

\* Koto::call_function, of the function get_global_function("main") gave.
call_function ==
    \E span \in BOOLEAN :
        /\ host = "running"
        /\ GetGlobalFunction(globals) # NoMain
        /\ outcome' = CallFunction("call_function", GetGlobalFunction(globals), span)
        /\ fault' = Fault(VmRun(GetGlobalFunction(globals)), span,
                          Origin(GetGlobalFunction(globals)), self_script)
        /\ host' = Host(outcome')
        /\ UNCHANGED <<chunk, self_script, globals>>
        /\ UNCHANGED notDriver

\* Koto::global_mut: the host gives the global main a value of its own.
global_mut ==
    \E value \in {NumberGlobal, BuiltinGlobal} :
        /\ host = "running"
        /\ globals # value
        /\ globals' = value
        /\ outcome' = Gave("global_mut", "Ok", "-")
        /\ fault' = NoFault
        /\ UNCHANGED <<chunk, self_script, host>>
        /\ UNCHANGED notDriver

\* String::default(): the text of no script.
NoScript == NoChunk

InitDriver ==
    /\ chunk = NoChunk
    /\ self_script = NoScript
    /\ fault = NoFault
    /\ globals = NoMain
    /\ outcome = NoOutcome
    /\ host = "running"

NextDriver == compile \/ run \/ call_function_by_name \/ call_function \/ global_mut

(***************************************************************************)
(* The global "env" of the runtime: a Map with the script's directory and  *)
(* path and the list of the arguments.  A Map and a List are given here by *)
(* their data.                                                             *)
(***************************************************************************)
MapOf(data) == [tag |-> "Map", v |-> data]
ListOf(data) == [tag |-> "List", v |-> data]

\* ValueMap::add_value, add_list: the value of the key is set.
AddValue(data, key, value) == MapInsert(data, key, value)

\* The strings of the arguments: "a", "b".
ArgStrings == {<<97>>, <<98>>}

ArgLists == UNION {[1..n -> ArgStrings] : n \in 0..MaxArgs}

\* Option<String>::None
NoPath == <<-1>>

\* The paths given to set_script_path: "", "s", "d/s", "/", "/s".
Paths == {<<>>, <<115>>, <<100, 47, 115>>, <<47>>, <<47, 115>>}

\* Path::parent: the path without its last component; None for the empty
\* path and for the root.
Parent(path) ==
    LET slashes == {i \in 1..Len(path) : path[i] = 47}
        i == CHOOSE x \in slashes : \A y \in slashes : y <= x
    IN  IF path = <<>> \/ path = <<47>> THEN NoPath
        ELSE IF slashes = {} THEN <<>>
        ELSE IF i = 1 THEN <<47>>
        ELSE SubSeq(path, 1, i - 1)

\* The env of Koto::new
NewEnv ==
    MapOf(AddValue(AddValue(AddValue(EmptyMap, "script_dir", Empty),
                            "script_path", Empty),
                   "args", ListOf(<<>>)))

\* The value the driver takes for no Map: unreachable!()
Unreachable == [tag |-> "panic", v |-> <<>>]

\* args.iter().map(|arg| Str(..)).collect()
KotoArgs(args) == [i \in 1..Len(args) |-> Str(args[i])]

SetArgsExtend(e, args) ==
    IF e.tag = "Map"
    THEN MapOf(AddValue(e.v, "args", ListOf(e.v["args"].v \o KotoArgs(args))))
    ELSE Unreachable

\* Koto::set_args
SetArgs(e, args) ==
    IF e.tag = "Map"
    THEN MapOf(AddValue(e.v, "args", ListOf(KotoArgs(args))))
    ELSE Unreachable

\* Koto::set_script_path
SetScriptPath(e, path) ==
    LET script_dir == IF path = NoPath \/ Parent(path) = NoPath
                      THEN Empty
                      ELSE Str(Parent(path))
        path_value == IF path = NoPath THEN Empty ELSE Str(path)
    IN  IF e.tag = "Map"
        THEN MapOf(AddValue(AddValue(e.v, "script_dir", script_dir),
                            "script_path", path_value))
        ELSE Unreachable

\* Koto::set_args of the strings args.
set_args_of(args) ==
    /\ env' = SetArgs(env, args)
    /\ last' = [call |-> "set_args", args |-> args, path |-> NoPath]
    /\ UNCHANGED script_path
    /\ UNCHANGED notEnv

\* Koto::set_args
set_args == \E args \in ArgLists : set_args_of(args)

set_script_path ==
    \E path \in Paths \cup {NoPath} :
        /\ env' = SetScriptPath(env, path)
        /\ script_path' = path
        /\ last' = [call |-> "set_script_path", args |-> <<>>, path |-> path]
        /\ UNCHANGED notEnv

InitEnv ==
    /\ env = NewEnv
    /\ script_path = NoPath
    /\ last = [call |-> "new", args |-> <<>>, path |-> NoPath]

NextEnv == set_args \/ set_script_path

\* No function of values has been called.
InitPure == pure = [fn |-> "-"]

(***************************************************************************)
(* Diagnostics.  A string is the sequence of its bytes.                    *)
(***************************************************************************)
Repeat(byte, n) == [i \in 1..n |-> byte]

RECURSIVE U32ToString(_)
\* u32::to_string
U32ToString(n) ==
    IF n < 10 THEN <<48 + n>> ELSE U32ToString(n \div 10) \o <<48 + (n % 10)>>

RECURSIVE Lines(_)
\* str::lines: the text between the line feeds, without an empty last line.
Lines(s) ==
    LET feeds == {i \in 1..Len(s) : s[i] = 10}
        i == CHOOSE x \in feeds : \A y \in feeds : x <= y
    IN  IF s = <<>> THEN <<>>
        ELSE IF feeds = {} THEN <<s>>
        ELSE <<SubSeq(s, 1, i - 1)>> \o Lines(SubSeq(s, i + 1, Len(s)))

\* Iterator::skip(n).take(m) of a sequence
SkipTake(seq, n, m) ==
    SubSeq(seq, n + 1, IF n + m < Len(seq) THEN n + m ELSE Len(seq))

\* The largest of the lengths of the sequences of seq.
MaxLen(seq) ==
    CHOOSE w \in {Len(seq[i]) : i \in 1..Len(seq)} :
        \A i \in 1..Len(seq) : Len(seq[i]) <= w

\* {:>width$}
RightAligned(s, width) ==
    IF Len(s) < width THEN Repeat(32, width - Len(s)) \o s ELSE s

\* format!(" {:>width$} | {}\n", line_number, excerpt_line, width = number_width)
ExcerptRow(line_number, excerpt_line, width) ==
    <<32>> \o RightAligned(line_number, width) \o <<32, 124, 32>>
        \o excerpt_line \o <<10>>

RECURSIVE ExcerptRows(_, _, _)
ExcerptRows(excerpt_lines, line_numbers, width) ==
    IF excerpt_lines = <<>> \/ line_numbers = <<>> THEN <<>>
    ELSE ExcerptRow(Head(line_numbers), Head(excerpt_lines), width)
             \o ExcerptRows(Tail(excerpt_lines), Tail(line_numbers), width)

Pos(line, column) == [line |-> line, column |-> column]

FormatErrorFirstWidth(message, script, start_pos, end_pos) ==
    LET excerpt_lines == SkipTake(Lines(script), start_pos.line - 1,
                                  end_pos.line - start_pos.line + 1)
        line_numbers == [i \in 1..(end_pos.line - start_pos.line + 1) |->
                            U32ToString(start_pos.line + i - 1)]
        number_width == Len(Head(line_numbers))
        padding == Repeat(32, number_width + 2)
        excerpt ==
            IF Len(excerpt_lines) = 1
            THEN ExcerptRow(Head(line_numbers), Head(excerpt_lines), number_width)
                     \o padding \o <<124>>
                     \o Repeat(32, start_pos.column)
                     \o Repeat(94, end_pos.column - start_pos.column)
            ELSE ExcerptRows(excerpt_lines, line_numbers, number_width)
    IN  message \o <<10>> \o <<32, 45, 45, 62, 32>> \o U32ToString(start_pos.line)
            \o <<58>> \o U32ToString(start_pos.column) \o <<10>>
            \o padding \o <<124, 10>> \o excerpt

FormatErrorCaretsToEnd(message, script, start_pos, end_pos) ==
    LET excerpt_lines == SkipTake(Lines(script), start_pos.line - 1,
                                  end_pos.line - start_pos.line + 1)
        line_numbers == [i \in 1..(end_pos.line - start_pos.line + 1) |->
                            U32ToString(start_pos.line + i - 1)]
        number_width == MaxLen(line_numbers)
        padding == Repeat(32, number_width + 2)
        excerpt ==
            IF Len(excerpt_lines) = 1
            THEN ExcerptRow(Head(line_numbers), Head(excerpt_lines), number_width)
                     \o padding \o <<124>>
                     \o Repeat(32, start_pos.column)
                     \o Repeat(94, end_pos.column)
            ELSE ExcerptRows(excerpt_lines, line_numbers, number_width)
    IN  message \o <<10>> \o <<32, 45, 45, 62, 32>> \o U32ToString(start_pos.line)
            \o <<58>> \o U32ToString(start_pos.column) \o <<10>>
            \o padding \o <<124, 10>> \o excerpt

\* Koto::format_error
FormatError(message, script, start_pos, end_pos) ==
    LET excerpt_lines == SkipTake(Lines(script), start_pos.line - 1,
                                  end_pos.line - start_pos.line + 1)
        line_numbers == [i \in 1..(end_pos.line - start_pos.line + 1) |->
                            U32ToString(start_pos.line + i - 1)]
        number_width == MaxLen(line_numbers)
        padding == Repeat(32, number_width + 2)
        excerpt ==
            IF Len(excerpt_lines) = 1
            THEN ExcerptRow(Head(line_numbers), Head(excerpt_lines), number_width)
                     \o padding \o <<124>>
                     \o Repeat(32, start_pos.column)
                     \o Repeat(94, end_pos.column - start_pos.column)
            ELSE ExcerptRows(excerpt_lines, line_numbers, number_width)
    IN  message \o <<10>> \o <<32, 45, 45, 62, 32>> \o U32ToString(start_pos.line)
            \o <<58>> \o U32ToString(start_pos.column) \o <<10>>
            \o padding \o <<124, 10>> \o excerpt

\* The text of line i of a script: "ab" or "ba", unlike the lines next to it.
LineText(i, odd) ==
    IF (i % 2 = 1) = odd THEN <<97, 98>> ELSE <<98, 97>>

RECURSIVE Joined(_, _, _)
\* The script of the lines i..n, each ended by a line feed.
Joined(i, n, odd) ==
    IF i > n THEN <<>> ELSE LineText(i, odd) \o <<10>> \o Joined(i + 1, n, odd)

\* A script of n lines, the last one with its line feed or without.
ScriptText(n, odd, ended) ==
    IF ended THEN Joined(1, n, odd)
    ELSE SubSeq(Joined(1, n, odd), 1, Len(Joined(1, n, odd)) - 1)

\* The message of a diagnostic: "m".
Message == <<109>>

\* format_error of a span of the script: its lines are lines of the script,
\* the end is not before the start.
format_error ==
    /\ pure.fn = "-"
    /\ \E n \in 1..MaxLines, odd \in BOOLEAN, ended \in BOOLEAN,
          sl \in 1..MaxLines, el \in 1..MaxLines,
          sc \in 1..MaxColumn, ec \in 1..MaxColumn :
        /\ sl <= el
        /\ el <= n
        /\ sl = el => sc <= ec
        /\ pure' = [fn |-> "format_error",
                    script |-> ScriptText(n, odd, ended),
                    texts |-> [i \in 1..n |-> LineText(i, odd)],
                    start_pos |-> Pos(sl, sc),
                    end_pos |-> Pos(el, ec),
                    out |-> FormatError(Message, ScriptText(n, odd, ended),
                                        Pos(sl, sc), Pos(el, ec))]
        /\ UNCHANGED notPure

NextFormat == format_error

(***************************************************************************)
(* Functions of two values, applied to sample values in a sample heap.     *)
(***************************************************************************)
\* f64 in increasing order: -inf, -2, -1, -0, 0, the least above 0, 1, the
\* next above 1, 2, inf.
Increasing ==
    <<<<1, 2047, 0>>, <<1, 1024, 0>>, <<1, 1023, 0>>, <<1, 0, 0>>, <<0, 0, 0>>,
      <<0, 0, 1>>, <<0, 1023, 0>>, <<0, 1023, 1>>, <<0, 1024, 0>>, <<0, 2047, 0>>>>

NaNs == {<<0, 2047, 8>>, <<1, 2047, 8>>, <<0, 2047, 1>>}

F64s == {Increasing[i] : i \in 1..Len(Increasing)} \cup NaNs

SampleHeap ==
    [aggs |-> <<<<Number(One)>>, <<Number(NaN)>>>>,
     cells |-> <<Number(One), Str(<<97>>), List(1), Empty, Free>>,
     full |-> FALSE]

SampleValues ==
    {Empty, Bool(TRUE), Bool(FALSE), Number(One), Number(NaN), Number(<<0, 0, 0>>),
     Vec4(<<One, One, One, One>>), Vec4(<<One, One, NaN, One>>), Range(0, 1),
     Str(<<>>), Str(<<97>>), List(1), List(2), Map(1),
     Share(1), Share(2), Share(3), Share(4)}

ValuesHaveMatchingTypeLeftOnly(hp, a, b) ==
    IF IsShare(a) /\ IsShare(b) THEN hp.cells[Ref(a)].tag = hp.cells[Ref(b)].tag
    ELSE IF IsShare(a) THEN hp.cells[Ref(a)].tag = b.tag
    ELSE a.tag = b.tag

\* values_have_matching_type
ValuesHaveMatchingType(hp, a, b) ==
    IF IsShare(a) /\ IsShare(b) THEN hp.cells[Ref(a)].tag = hp.cells[Ref(b)].tag
    ELSE IF IsShare(a) THEN hp.cells[Ref(a)].tag = b.tag
    ELSE IF IsShare(b) THEN a.tag = hp.cells[Ref(b)].tag
    ELSE a.tag = b.tag

\* Ord::cmp of two Numbers
cmp ==
    /\ pure.fn = "-"
    /\ \E a \in F64s, b \in F64s :
           pure' = [fn |-> "cmp", a |-> Number(a), b |-> Number(b),
                    out |-> Cmp(Number(a), Number(b))]
    /\ UNCHANGED notPure

\* PartialOrd::partial_cmp of two values
partial_cmp ==
    /\ pure.fn = "-"
    /\ \E a \in SampleValues, b \in SampleValues :
           pure' = [fn |-> "partial_cmp", a |-> a, b |-> b, out |-> PartialCmp(a, b)]
    /\ UNCHANGED notPure

values_have_matching_type ==
    /\ pure.fn = "-"
    /\ \E a \in SampleValues, b \in SampleValues :
           pure' = [fn |-> "values_have_matching_type", a |-> a, b |-> b,
                    out |-> ValuesHaveMatchingType(SampleHeap, a, b)]
    /\ UNCHANGED notPure

NextCompare == cmp \/ partial_cmp \/ values_have_matching_type

(***************************************************************************)
(* The iterator of a pool.                                                 *)
(***************************************************************************)
\* The add_* call for the literal lit.
Add(b, lit) ==
    IF lit.kind = "Str" THEN AddString(b, lit.v)
    ELSE IF lit.kind = "F64" THEN AddF64(b, lit.v)
    ELSE AddI64(b, lit.v[1])

RECURSIVE AddAll(_, _)
\* The builder after the add_* calls for the literals lits, made on b.
AddAll(b, lits) ==
    IF lits = <<>> THEN b ELSE AddAll(Add(b, Head(lits)).builder, Tail(lits))

\* The sequences of literals a pool is built from.
LiteralSeqs == UNION {[1..n -> Literals] : n \in 0..MaxAdds}

\* ConstantPoolIterator::new
IteratorNew(p) == [pool |-> p, index |-> 0]

IteratorNextIncrementFirst(it) ==
    [item |-> PoolGet(it.pool, it.index + 1),
     it |-> [it EXCEPT !.index = @ + 1]]

\* ConstantPoolIterator::next: the item, and the iterator afterwards.
IteratorNext(it) ==
    [item |-> PoolGet(it.pool, it.index),
     it |-> [it EXCEPT !.index = @ + 1]]

\* ConstantPool::iter, on the pool built from the literals adds.
iter ==
    /\ pure.fn = "-"
    /\ \E adds \in LiteralSeqs :
           pure' = [fn |-> "iter", adds |-> adds,
                    it |-> IteratorNew(Build(AddAll(BuilderDefault, adds))),
                    items |-> <<>>]
    /\ UNCHANGED notPure

\* ConstantPoolIterator::next; items are the results of the calls so far.
\* The calls stop two after the first None.
next ==
    /\ pure.fn = "iter"
    /\ pure.it.index < Size(pure.it.pool) + 2
    /\ pure' = [pure EXCEPT !.it = IteratorNext(pure.it).it,
                            !.items = Append(@, IteratorNext(pure.it).item)]
    /\ UNCHANGED notPure

NextIter == iter \/ next

(***************************************************************************)
(* A session of a host with the driver: scripts that give a value or a     *)
(* fault, compiled and run between changes of the arguments and the path.  *)
(***************************************************************************)
SessionScripts ==
    {s \in Scripts : /\ s.top.op \in {"value", "vm fault", "external fault"}
                     /\ s.main.op \in {"-", "value", "vm fault", "external fault"}}

SessionArgs == {args \in ArgLists : Len(args) <= 1}

session_compile == \E s \in SessionScripts : compile_script(s)

session_set_args == \E args \in SessionArgs : set_args_of(args)

NextSession ==
    session_compile \/ run \/ call_function \/ session_set_args \/ set_script_path

(***************************************************************************)
(* The arithmetic of format_error.  The lines and columns of a Position    *)
(* are unsigned: a subtraction whose result would be negative panics in a  *)
(* build with overflow checks and wraps in a build without.                *)
(***************************************************************************)
\* What a subtraction that underflows makes of the call, by the build.
Underflow ==
    {[kind |-> "panic", text |-> "attempt to subtract with overflow"],
     [kind |-> "wrapped", text |-> "-"]}

\* Koto::format_error with the subtractions it makes, in the order it makes
\* them: the outcomes of the call.
FormatErrorU32(message, script, start_pos, end_pos) ==
    LET excerpt_lines == SkipTake(Lines(script), start_pos.line - 1,
                                  end_pos.line - start_pos.line + 1)
    IN  IF start_pos.line < 1 THEN Underflow
        ELSE IF end_pos.line < start_pos.line THEN Underflow
        ELSE IF Len(excerpt_lines) = 1 /\ end_pos.column < start_pos.column
        THEN Underflow
        ELSE {[kind |-> "String",
               text |-> FormatError(message, script, start_pos, end_pos)]}

\* format_error of a span that starts at a line of the script or after it and
\* may end after its last line; the end is not before the start.
format_error_u32 ==
    /\ pure.fn = "-"
    /\ \E n \in 1..MaxLines, ended \in BOOLEAN,
          sl \in 1..(MaxLines + 1), el \in 1..(MaxLines + 1),
          sc \in 1..MaxColumn, ec \in 1..MaxColumn :
        /\ sl <= el
        /\ sl = el => sc <= ec
        /\ \E out \in FormatErrorU32(Message, ScriptText(n, TRUE, ended),
                                     Pos(sl, sc), Pos(el, ec)) :
               pure' = [fn |-> "format_error_u32",
                        script |-> ScriptText(n, TRUE, ended),
                        lines |-> n,
                        start_pos |-> Pos(sl, sc),
                        end_pos |-> Pos(el, ec),
                        out |-> out]
        /\ UNCHANGED notPure

NextFormatU32 == format_error_u32

(***************************************************************************)
(* The specifications.                                                     *)
(***************************************************************************)
Init == InitPool /\ InitValues /\ InitDriver /\ InitEnv /\ InitPure

SpecPool == Init /\ [][NextPool]_vars

SpecValues == Init /\ [][NextValues]_vars

SpecDriver == Init /\ [][NextDriver]_vars

SpecEnv == Init /\ [][NextEnv]_vars

SpecFormat == Init /\ [][NextFormat]_vars

SpecCompare == Init /\ [][NextCompare]_vars

SpecIter == Init /\ [][NextIter]_vars

SpecSession == Init /\ [][NextSession]_vars

SpecFormatU32 == Init /\ [][NextFormatU32]_vars

(***************************************************************************)
(* Claims about the constant pool.                                         *)
(***************************************************************************)
\* The position in l of the first add of the literal added by call i.
FirstAdd(l, i) == CHOOSE f \in 1..i :
    /\ l[f].lit = l[i].lit
    /\ \A g \in 1..(f - 1) : l[g].lit # l[i].lit

\* The literals that calls of l added with success.
Added(l) == {l[i].lit : i \in {j \in 1..Len(l) : l[j].result.ok}}

\* The literals added with success before call i.
AddedBefore(l, i) == {l[j].lit : j \in {k \in 1..(i - 1) : l[k].result.ok}}

Deduplicated(l, p) ==
    /\ \A i \in 1..Len(l) :
           l[FirstAdd(l, i)].result.ok => l[i].result = l[FirstAdd(l, i)].result
    /\ Size(p) = Cardinality(Added(l))

\* C1: adding a literal equal to one added earlier returns the index of its
\* first addition and adds no entry: the size of the built pool is the number
\* of distinct literals added (a string, a float and an integer never being
\* the same literal).
C1_Deduplicated ==
    /\ Deduplicated(log, Build(builder))
    /\ pool # NoPool => Deduplicated(poolLog, pool)

C1_Witness ==
    /\ pool # NoPool
    /\ Size(pool) = 2
    /\ \E i, j \in 1..Len(poolLog) :
           /\ i < j
           /\ poolLog[i].lit = poolLog[j].lit
           /\ poolLog[j].result.ok
           /\ \E k \in (i + 1)..(j - 1) : poolLog[k].lit.kind # poolLog[i].lit.kind

TypedGet(p, kind, index) ==
    CASE kind = "Str" -> GetStr(p, index)
      [] kind = "F64" -> GetF64(p, index)
      [] kind = "I64" -> GetI64(p, index)

DenseAndStable(l, p) ==
    /\ \A i \in 1..Len(l) :
           l[i].result.ok =>
               /\ l[i].result.index = Cardinality(AddedBefore(l, FirstAdd(l, i)))
               /\ PoolGet(p, l[i].result.index) = l[i].lit
               /\ TypedGet(p, l[i].lit.kind, l[i].result.index) = l[i].lit
    /\ {l[i].result.index : i \in {j \in 1..Len(l) : l[j].result.ok}}
           = 0..(Size(p) - 1)

\* C2: the k-th distinct literal added receives index k, no later add changes
\* the literal found at an assigned index, and the built pool's get, get_str,
\* get_f64 and get_i64 at index k return the literal that was assigned k.
C2_DenseStable ==
    /\ DenseAndStable(log, Build(builder))
    /\ pool # NoPool => DenseAndStable(poolLog, pool)

C2_Witness ==
    /\ pool # NoPool
    /\ Len(poolLog) >= 3
    /\ poolLog[1].lit = StrLit(<<97>>)
    /\ poolLog[Len(poolLog)].lit = StrLit(<<97, 98>>)
    /\ poolLog[Len(poolLog)].result = Ok(1)
    /\ GetStr(pool, 1) = StrLit(<<97, 98>>)

Lits(l) == [i \in 1..Len(l) |-> l[i].lit]

AllOk(l) == \A i \in 1..Len(l) : l[i].result.ok

DifferInOne(a, b) ==
    /\ Len(a) = Len(b)
    /\ Cardinality({i \in 1..Len(a) : a[i] # b[i]}) = 1

\* C3: two pools built from identical sequences of literals compare equal, and
\* two pools built from sequences that differ in one literal, in value or in
\* kind, compare unequal.
C3_PoolEquality ==
    (pool # NoPool /\ AllOk(log) /\ AllOk(poolLog)) =>
        /\ Lits(log) = Lits(poolLog) => PoolEq(pool, Build(builder))
        /\ DifferInOne(Lits(log), Lits(poolLog)) => ~PoolEq(pool, Build(builder))

\* The builder holds as many constants as the index range allows.
Full(b) == Len(b.constants) = IndexMax + 1

\* C4: on a full builder an add of a literal not yet present returns the
\* out-of-range error and leaves the builder unchanged, so that build() yields
\* the same pool, and an add of a literal already present returns its index.
C4_TooManyConstants ==
    [][(Len(log') = Len(log) + 1 /\ Full(builder)) =>
          LET e == log'[Len(log')]
          IN  /\ builder' = builder
              /\ Build(builder') = Build(builder)
              /\ IF e.lit \in Added(log)
                 THEN /\ e.result.ok
                      /\ \E i \in 1..Len(log) :
                             log[i].lit = e.lit /\ log[i].result = e.result
                 ELSE e.result = OutOfRange]_vars

C4_Witness ==
    \E i, j \in 1..Len(log) :
        /\ i < j
        /\ log[i].result = OutOfRange
        /\ log[i].lit.kind = "Str"
        /\ log[j].result.ok
        /\ Full(builder)

(***************************************************************************)
(* Claims about values.                                                    *)
(***************************************************************************)
\* C5: every value equals itself, and a comparison in which one side or both
\* are Share cells gives the result of the comparison of the contents.
C5_Equality ==
    \A h \in Handles, g \in Handles :
        /\ ValueEq(Heap, handles[h], handles[h])
        /\ ValueEq(Heap, handles[h], handles[g])
               = ValueEq(Heap, DerefValue(Heap, handles[h]), DerefValue(Heap, handles[g]))

\* C6: after copy_value of a List or Map, a mutation through the copy leaves
\* what the original handle observes as it was, and a mutation through the
\* original leaves what the copy observes as it was.
C6_CopyIsolated ==
    [][(link.kind = "copy" /\ link' = link) =>
          /\ via' = link.new =>
                 \A o \in link.origs :
                     Deep(Heap', handles'[o]) = Deep(Heap, handles[o])
          /\ via' \in link.origs =>
                 Deep(Heap', handles'[link.new]) = Deep(Heap, handles[link.new])]_vars

\* A mutation through the copy has made the copy differ from its original.
C6_Witness ==
    /\ link.kind = "copy"
    /\ via = link.new
    /\ \E o \in link.origs : Deep(Heap, handles[o]) # Deep(Heap, handles[link.new])

\* C7: the handles that come from one make_reference, directly or as clones,
\* are handles of one Share cell: after any writes through any of them, all
\* of them observe the same contents.
C7_ShareVisible ==
    \A h \in Handles, g \in Handles :
        (family[h] # 0 /\ family[h] = family[g]) =>
            /\ IsShare(handles[h])
            /\ IsShare(handles[g])
            /\ Deep(Heap, handles[h]) = Deep(Heap, handles[g])

\* A write has gone through one of two handles of a cell.
C7_Witness ==
    \E h \in Handles, g \in Handles :
        /\ h # g
        /\ family[h] # 0
        /\ family[h] = family[g]
        /\ via = h

\* make_reference of owned, in heap hp, gives a cell that was free, holding
\* a value that is no Share and observes what owned observes; a second
\* application gives the very same cell.
NewShare(hp, owned, res) ==
    \/ res.heap.full
    \/ /\ res.flag
       /\ IsShare(res.value)
       /\ hp.cells[Ref(res.value)] = Free
       /\ ~IsShare(res.heap.cells[Ref(res.value)])
       /\ Deep(res.heap, res.heap.cells[Ref(res.value)]) = Deep(hp, owned)
       /\ \A c \in 1..Len(hp.cells) :
              c # Ref(res.value) => res.heap.cells[c] = hp.cells[c]
       /\ LET again == MakeReference(res.heap, res.value, 0)
          IN  /\ again.value = res.value
              /\ ~again.flag
              /\ again.heap = res.heap

\* C8: make_reference of a value that is no Share gives a new cell holding the
\* value, with the flag true; of a Share it gives the same cell, contents
\* unchanged, with the flag false; no cell holds a Share.
C8_MakeReference ==
    /\ \A c \in 1..Len(cells) : ~IsShare(cells[c])
    /\ \A h \in Handles, moved \in BOOLEAN :
           LET arg == handles[h]
               res == MakeReference(Heap, arg, Held(arg, moved))
           IN  IF IsShare(arg)
               THEN /\ res.value = arg
                    /\ ~res.flag
                    /\ res.heap = Heap
               ELSE NewShare(Heap, arg, res)

\* make_reference has made a cell of a list or map, and a free cell is left
\* for a further application.
C8_Witness ==
    \E h \in Handles, g \in Handles :
        /\ family[h] # 0
        /\ IsShare(handles[h])
        /\ IsAgg(cells[Ref(handles[h])])
        /\ ~IsShare(handles[g])
        /\ ~MakeReference(Heap, handles[g], Held(handles[g], FALSE)).heap.full

\* C9: after make_reference of a List or Map that other handles hold, a
\* mutation through the new Share leaves what those handles observe as it
\* was, and a mutation through one of them leaves what the Share observes as
\* it was.
C9_ExclusiveOwnership ==
    [][(link.kind = "ref" /\ link' = link) =>
          /\ via' = link.new =>
                 \A o \in link.origs :
                     Deep(Heap', handles'[o]) = Deep(Heap, handles[o])
          /\ via' \in link.origs =>
                 Deep(Heap', handles'[link.new]) = Deep(Heap, handles[link.new])]_vars

\* A mutation through the Share has made it differ from the aggregate it was
\* made of.
C9_Witness ==
    /\ link.kind = "ref"
    /\ via = link.new
    /\ \E o \in link.origs :
           Deep(Heap, handles[o]) # Deep(Heap, DerefValue(Heap, handles[link.new]))

(***************************************************************************)
(* Claims about the driver.                                                *)
(***************************************************************************)
\* C10: a comparison of two values that have no order, made by a script under
\* run() or call_function(), gives the host an error string: the call returns
\* Err and no panic unwinds into the host.
C10_ComparisonFault ==
    (outcome.call \in {"run", "call_function"} /\ Unsupported(outcome.expr)) =>
        /\ outcome.kind = "Err"
        /\ outcome.text # "-"
        /\ host = "running"

\* C11: after a compile() that returned an error, the driver holds no chunk.
C11_FailedCompileClearsChunk ==
    (outcome.call = "compile" /\ outcome.kind = "Err") => chunk = NoChunk

\* C12: run() with a chunk runs the top level first.  When the top level
\* faults the fault is what the host is given and main is not called; when it
\* succeeds and a global function main exists then, main is called and its
\* result is given; otherwise the result of the top level is given.
C12_RunThenMain ==
    [][(outcome'.call = "run" /\ chunk # NoChunk) =>
          LET top == VmRun(chunk.top)
          IN  IF top.kind # "Ok"
              THEN /\ outcome'.expr = chunk.top
                   /\ outcome'.kind # "Ok"
                   /\ globals' = globals
              ELSE IF GetGlobalFunction(globals') # NoMain
              THEN /\ outcome'.expr = globals'
                   /\ \E span \in BOOLEAN :
                          outcome' = CallFunction("run", globals', span)
              ELSE /\ outcome'.expr = chunk.top
                   /\ outcome'.kind = "Ok"
                   /\ outcome'.value = top.value]_vars

\* run() has given the result of the main that the script run defines, which
\* is not the result of its top level.
C12_Witness ==
    /\ outcome.call = "run"
    /\ chunk.main # NoMain
    /\ outcome.expr = chunk.main
    /\ outcome.kind = "Ok"
    /\ outcome.value # VmRun(chunk.top).value

\* run() has given the fault of the top level while a global function main
\* existed.
C12_WitnessFault ==
    /\ outcome.call = "run"
    /\ GetGlobalFunction(globals) # NoMain
    /\ outcome.expr = chunk.top
    /\ outcome.kind = "Err"

\* The global value g can be called: it is a function of a script or a
\* function of the host.
Callable(g) == g \in Exprs \/ g = BuiltinGlobal

\* C13: call_function_by_name gives the "function not found" error exactly
\* when the name has no global value or a value that cannot be called; a
\* value that can be called is called, and its result or its fault is given.
C13_NotFoundIffNotCallable ==
    [][outcome'.call = "call_function_by_name" =>
          \/ outcome'.text = NotFound("other")
          \/ IF Callable(globals)
             THEN outcome'.text # NotFound("main")
             ELSE outcome'.text = NotFound("main")]_vars

(***************************************************************************)
(* Claims about the environment.                                           *)
(***************************************************************************)
\* C14: after set_args(xs) the args of env is the list of the strings of xs,
\* in their order and with nothing of earlier args, and script_dir and
\* script_path of env are as they were; env is always a Map with the keys
\* script_dir, script_path and args.
C14_SetArgs ==
    /\ [](env.tag = "Map" /\ DOMAIN env.v = {"script_dir", "script_path", "args"})
    /\ [][last'.call = "set_args" =>
             /\ env'.v["args"].tag = "List"
             /\ env'.v["args"].v = [i \in 1..Len(last'.args) |-> Str(last'.args[i])]
             /\ env'.v["script_dir"] = env.v["script_dir"]
             /\ env'.v["script_path"] = env.v["script_path"]]_vars

\* set_args has been given "a", "b" after a script path was set.
C14_Witness ==
    /\ last.call = "set_args"
    /\ last.args = <<<<97>>, <<98>>>>
    /\ env.v["script_path"] # Empty
    /\ env.v["script_dir"] # Empty

(***************************************************************************)
(* Claims about diagnostics.                                               *)
(***************************************************************************)
\* The rows of the diagnostic after the message, the position and the bar.
Rendered == SubSeq(Lines(pure.out), 4, Len(Lines(pure.out)))

\* The row of line k of the script, its number right-aligned to width.
RowOf(k, width) ==
    <<32>> \o Repeat(32, width - Len(U32ToString(k))) \o U32ToString(k)
        \o <<32, 124, 32>> \o pure.texts[k]

Rank(f) ==
    LET i == CHOOSE x \in 1..Len(Increasing) : Increasing[x] = f
    IN  IF i = 4 THEN 5 ELSE i

\* C17: in the total order a NaN is Greater than every number that is no NaN,
\* such a number is Less than a NaN, a NaN is Equal to a NaN, and two numbers
\* that are no NaN compare as their values do.
C17_TotalOrder ==
    pure.fn = "cmp" =>
        IF pure.a.v \in NaNs /\ pure.b.v \in NaNs THEN pure.out = "Equal"
        ELSE IF pure.a.v \in NaNs THEN pure.out = "Greater"
        ELSE IF pure.b.v \in NaNs THEN pure.out = "Less"
        ELSE IF Rank(pure.a.v) < Rank(pure.b.v) THEN pure.out = "Less"
        ELSE IF Rank(pure.a.v) > Rank(pure.b.v) THEN pure.out = "Greater"
        ELSE pure.out = "Equal"

\* A NaN has been compared with the infinity.
C17_Witness ==
    /\ pure.fn = "cmp"
    /\ pure.a.v \in NaNs
    /\ pure.b.v = <<0, 2047, 0>>
    /\ pure.out = "Greater"

\* C18: partial_cmp gives a result for two Numbers, two Vec4 and two Str, and
\* for every other pair of values, a Share on either side included, it gives
\* no ordering but the fault.
C18_PartialOrder ==
    pure.fn = "partial_cmp" =>
        (pure.out # "Panic"
            <=> \/ (pure.a.tag = "Number" /\ pure.b.tag = "Number")
                \/ (pure.a.tag = "Vec4" /\ pure.b.tag = "Vec4")
                \/ (pure.a.tag = "Str" /\ pure.b.tag = "Str"))

\* The Share of a Number has been compared with a Number.
C18_Witness ==
    /\ pure.fn = "partial_cmp"
    /\ pure.a = Share(1)
    /\ pure.b = Number(One)
    /\ pure.out = "Panic"

\* The value in a new Share cell of the sample heap.
Wrapped(x) == NewCell(SampleHeap, x)

\* The tag of a value, or of the value in its cell.
TagThroughShare(hp, x) == IF IsShare(x) THEN hp.cells[Ref(x)].tag ELSE x.tag

\* C19: values_have_matching_type(a, b) is true exactly when a and b, each
\* taken out of its Share cell if it is one, have the same variant; it is the
\* same for (b, a), and the same when a or b is put in a Share cell.
C19_MatchingType ==
    pure.fn = "values_have_matching_type" =>
        LET a == pure.a
            b == pure.b
            wa == IF IsShare(a) THEN [heap |-> SampleHeap, value |-> a] ELSE Wrapped(a)
            wb == IF IsShare(b) THEN [heap |-> SampleHeap, value |-> b] ELSE Wrapped(b)
        IN  /\ pure.out = (TagThroughShare(SampleHeap, a) = TagThroughShare(SampleHeap, b))
            /\ pure.out = ValuesHaveMatchingType(SampleHeap, b, a)
            /\ pure.out = ValuesHaveMatchingType(wa.heap, wa.value, b)
            /\ pure.out = ValuesHaveMatchingType(wb.heap, a, wb.value)

\* A Share of a List has been matched with a List.
C19_Witness ==
    /\ pure.fn = "values_have_matching_type"
    /\ pure.a = Share(3)
    /\ pure.b = List(2)
    /\ pure.out

\* C20: copy_value of a Share gives the contents of the cell and no handle of
\* the cell: a write through the Share leaves what the copy observes as it
\* was, and a mutation through the copy leaves what the Share observes as it
\* was, whatever the cell holds.
C20_CopyOfShare ==
    [][(link.kind = "copy of share" /\ link' = link) =>
          /\ ~IsShare(handles[link.new])
          /\ via' \in link.origs =>
                 Deep(Heap', handles'[link.new]) = Deep(Heap, handles[link.new])
          /\ via' = link.new =>
                 \A o \in link.origs :
                     Deep(Heap', handles'[o]) = Deep(Heap, handles[o])]_vars

\* The calls that run code of a script.
RunningCalls == {"run", "call_function", "call_function_by_name"}

\* C21: run(), call_function() and call_function_by_name() convert an Error
\* of the Vm in one way.  A VmError whose instruction has a span in the debug
\* info gives the excerpt of the source, a VmError without a span gives
\* "Runtime error at instruction N", an ExternalError gives "Error:" and its
\* message; each is returned as Err, and no value is returned.
C21_FaultConversion ==
    (outcome.call \in RunningCalls /\ outcome.expr # NoMain) =>
        LET res == VmRun(outcome.expr)
        IN  /\ fault.error = (IF res.kind \in {"VmError", "ExternalError"}
                              THEN res.kind ELSE "-")
            /\ fault.error = "VmError" =>
                   /\ outcome.kind = "Err"
                   /\ outcome.value = Empty
                   /\ outcome.text = IF fault.span THEN "excerpt"
                                     ELSE "Runtime error at instruction"
            /\ fault.error = "ExternalError" =>
                   /\ outcome.kind = "Err"
                   /\ outcome.value = Empty
                   /\ outcome.text = "Error:"

\* call_function_by_name has given the excerpt for a VmError of main whose
\* instruction has a span.
C21_Witness ==
    /\ outcome.call = "call_function_by_name"
    /\ fault.error = "VmError"
    /\ fault.span
    /\ outcome.kind = "Err"
    /\ outcome.text = "excerpt"

\* run has given "Error:" for an ExternalError of main.
C21_WitnessExternal ==
    /\ outcome.call = "run"
    /\ outcome.expr = globals
    /\ fault.error = "ExternalError"
    /\ outcome.text = "Error:"

(***************************************************************************)
(* Claims about the iterator of a pool.                                    *)
(***************************************************************************)
RECURSIVE Firsts(_, _)
\* The literals of lits that are not in seen, each once, in the order of
\* their first places, as far as the indices reach.
Firsts(lits, seen) ==
    IF lits = <<>> \/ Len(seen) > IndexMax THEN seen
    ELSE IF \E i \in 1..Len(seen) : seen[i] = Head(lits)
    THEN Firsts(Tail(lits), seen)
    ELSE Firsts(Tail(lits), Append(seen, Head(lits)))

\* C22: the iterator of a built pool yields size() constants, the i-th being
\* get(i) and the i-th literal in the order of first insertion, and None from
\* then on; get(i) is None for every i >= size().
C22_Iteration ==
    pure.fn = "iter" =>
        LET p == pure.it.pool
            order == Firsts(pure.adds, <<>>)
        IN  /\ Size(p) = Len(order)
            /\ Len(pure.items) = pure.it.index
            /\ \A i \in 1..Len(pure.items) :
                   IF i <= Size(p)
                   THEN /\ pure.items[i] = PoolGet(p, i - 1)
                        /\ pure.items[i] = order[i]
                   ELSE pure.items[i] = None
            /\ \A i \in Size(p)..(Size(p) + MaxAdds) : PoolGet(p, i) = None

\* The iterator of a pool of two constants of different kinds, one of them
\* added twice, has yielded both and then None twice.
C22_Witness ==
    /\ pure.fn = "iter"
    /\ Len(pure.adds) > Size(pure.it.pool)
    /\ Size(pure.it.pool) = 2
    /\ Len(pure.items) = 4
    /\ pure.items[1].kind # pure.items[2].kind
    /\ pure.items[3] = None
    /\ pure.items[4] = None

\* C23: for every pair of values to which partial_cmp gives an ordering, cmp
\* gives the same ordering, and does not fault.
C23_TotalAgreesWithPartial ==
    (pure.fn = "partial_cmp" /\ pure.out \in {"Less", "Equal", "Greater"}) =>
        Cmp(pure.a, pure.b) = pure.out

(***************************************************************************)
(* Claims about a session.                                                 *)
(***************************************************************************)
\* A step of set_args or set_script_path.
EnvStep == <<env, script_path, last>>' # <<env, script_path, last>>

\* C24: whenever the driver holds a chunk, the stored text is the text the
\* chunk was compiled from; a compile that succeeds replaces the chunk and
\* the stored text together, and run, call_function, set_args and
\* set_script_path change neither, whether they succeed or fail.
C24_ScriptOfChunk ==
    [][/\ chunk' # NoChunk => self_script' = chunk'
       /\ (outcome'.call = "compile" /\ outcome'.kind = "Ok") =>
              (chunk' # NoChunk /\ self_script' = chunk')
       /\ (outcome'.call \in {"run", "call_function"} \/ EnvStep) =>
              UNCHANGED <<chunk, self_script>>]_vars

\* A chunk without a main is held together with its text, after a failed
\* call_function of the main an earlier script left and a set_args with an
\* argument.
C24_Witness ==
    /\ chunk # NoChunk
    /\ self_script = chunk
    /\ outcome.call = "call_function"
    /\ outcome.kind = "Err"
    /\ last.call = "set_args"
    /\ last.args # <<>>
    /\ chunk.main = NoMain
    /\ globals # NoMain

\* C25: a VmError rendered with an excerpt takes the span from the debug info
\* of the compilation whose text the excerpt is cut from: the chunk that gave
\* the span was compiled from the stored text.
C25_SameCompilation ==
    (fault.error = "VmError" /\ fault.span) => fault.debug = fault.text

(***************************************************************************)
(* Claims about the arithmetic of diagnostics.                             *)
(***************************************************************************)
\* C26: for every script and every span with 1 <= start.line <= end.line,
\* and start.column <= end.column when the two are on one line, no
\* subtraction of format_error underflows and a string is returned, also when
\* the span ends after the last line of the script.
C26_NoUnderflow ==
    pure.fn = "format_error_u32" => pure.out.kind = "String"

====
